---- MODULE Spec2Model ----
(***************************************************************************)
(* Model of the serial connection manager (SerialManager: Connect,         *)
(* Disconnect, StartReading, stopReader), of the reader goroutine that     *)
(* StartReading launches, and of the consumer of its channels              *)
(* (AppUI.consumeSerial); and of the two pure computations of the          *)
(* program, the line framing of the reader's loop and ExportCSV, each under *)
(* a specification of its own that draws the inputs from bounded sets.     *)
(*                                                                         *)
(* A channel created by the n-th allocating StartReading call is named by  *)
(* the generation number n: stop channel n, done channel n, line channel n *)
(* and error channel n; the goroutine launched by that call is reader n.   *)
(* 0 stands for nil (no channel, no port).                                 *)
(***************************************************************************)
EXTENDS Integers, Sequences, FiniteSets, TLC

\* ---------------------------------------------------------------- bounds
MaxCalls == 4     \* calls of Connect / Disconnect / StartReading in a run
MaxFeed == 3      \* bytes the attached device emits in a run
ChanCap == 1      \* capacity of the line channel (256 in the source)
MaxData == 3      \* length of a byte sequence given to the line framing
MaxLines == 2     \* number of lines given to ExportCSV
MaxTime == 2      \* largest time stamp given to ExportCSV, in ticks
TicksPerMs == 2   \* ticks in a millisecond, the unit Format prints

\* ------------------------------------------------------ program constants
LF == 10
CR == 13
DefaultBaud == 9600

\* a StartReading call launches a reader only after a stopReader call has
\* cleared sm.running, so at most every other call launches one
Gens == 1..((MaxCalls + 1) \div 2)
Configs == {<<"COM1", DefaultBaud>>, <<"COM2", 115200>>}

\* the byte stream the attached device emits: a line of one letter, then
\* empty lines
Feed == [i \in 1..MaxFeed |-> IF i = 1 THEN 97 ELSE LF]

VARIABLES
    port,        \* sm.port: 0 is nil, else the handle
    portName,    \* sm.portName
    baudRate,    \* sm.baudRate
    running,     \* sm.running
    stopCh,      \* sm.stopCh
    doneCh,      \* sm.doneCh
    opened,      \* number of handles serial.Open has returned (handles 1..opened)
    device,      \* the bytes the attached device has still to emit
    closedH,     \* handles on which Close has been called
    stopClosed,  \* stop channels that are closed
    doneCloses,  \* per done channel, the number of close() calls that succeeded
    lineCh,      \* per line channel, the buffered lines
    lineClosed,  \* line channels that are closed
    errCh,       \* per error channel, the number of buffered errors
    calls,       \* the Connect and Disconnect calls waiting in stopReader
    ret,         \* the result of the call that returned last
    readers,     \* per reader goroutine: position and locals
    consumers,   \* per consumeSerial goroutine: position and outcome
    stream,      \* history: per reader, the bytes its reads have returned
    sent,        \* history: per reader, the lines sent on its line channel
    ncalls,      \* number of calls begun
    panicked,    \* the process died of a run-time panic
    fedData,     \* framing: the bytes the reads will return, in order
    cuts,        \* framing: the lengths of the chunks read so far
    acc,         \* framing: the accumulator (partial)
    emitted,     \* framing: the lines taken out so far
    lines,       \* export: the lines given to ExportCSV
    opts,        \* export: the CSVExportOptions given to ExportCSV
    written,     \* export: the records handed to the csv writer
    exported     \* export: ExportCSV has returned

vars == <<port, portName, baudRate, running, stopCh, doneCh, opened, device,
          closedH, stopClosed, doneCloses, lineCh, lineClosed, errCh, calls, ret,
          readers, consumers, stream, sent, ncalls, panicked,
          fedData, cuts, acc, emitted, lines, opts, written, exported>>

\* groups of variables, for UNCHANGED
mgr == <<port, portName, baudRate, running, stopCh, doneCh>>
chans == <<stopClosed, doneCloses, lineCh, lineClosed, errCh>>
hist == <<stream, sent>>
env == <<opened, device, closedH>>
callv == <<calls, ret>>
framer == <<fedData, cuts, acc, emitted>>
export == <<lines, opts, written, exported>>
pure == <<framer, export>>
serial == <<mgr, env, chans, callv, readers, consumers, hist, ncalls, panicked>>

\* ------------------------------------------------------------ line framing
\* bytes.IndexByte(partial, '\n'): 0 when absent (the source's -1), else the
\* 1-based position of the first line feed
IndexLF(s) ==
    IF \E i \in 1..Len(s) : s[i] = LF
    THEN CHOOSE i \in 1..Len(s) : s[i] = LF /\ \A j \in 1..(i - 1) : s[j] # LF
    ELSE 0

\* a faulty variant of the strip: every trailing carriage return goes
RECURSIVE StripAllCR(_)
StripAllCR(l) ==
    IF Len(l) > 0 /\ l[Len(l)] = CR THEN StripAllCR(SubSeq(l, 1, Len(l) - 1)) ELSE l

\* the bytes before the first line feed, less one trailing carriage return
StripCR(l) ==
    IF Len(l) > 0 /\ l[Len(l)] = CR THEN SubSeq(l, 1, Len(l) - 1) ELSE l

FirstLine(s) == StripCR(SubSeq(s, 1, IndexLF(s) - 1))

\* the accumulator after the first line and its terminator are consumed
Rest(s) == SubSeq(s, IndexLF(s) + 1, Len(s))

\* all the lines the extraction loop takes out of an accumulator
RECURSIVE Lines(_)
Lines(s) == IF IndexLF(s) = 0 THEN <<>> ELSE <<FirstLine(s)>> \o Lines(Rest(s))

NoReader == [pc |-> "none", port |-> 0, done |-> 0, partial |-> <<>>, cur |-> <<>>]
NoRet == [op |-> "none", val |-> "none", ch |-> 0]

\* the state after NewSerialManager()
ManagerInit ==
    /\ port = 0
    /\ portName = ""
    /\ baudRate = DefaultBaud
    /\ running = FALSE
    /\ stopCh = 0
    /\ doneCh = 0
    /\ opened = 0
    /\ device = Feed
    /\ closedH = {}
    /\ stopClosed = {}
    /\ doneCloses = [g \in Gens |-> 0]
    /\ lineCh = [g \in Gens |-> <<>>]
    /\ lineClosed = {}
    /\ errCh = [g \in Gens |-> 0]
    /\ calls = {}
    /\ ret = NoRet
    /\ readers = [g \in Gens |-> NoReader]
    /\ consumers = [g \in Gens |-> "none"]
    /\ stream = [g \in Gens |-> <<>>]
    /\ sent = [g \in Gens |-> <<>>]
    /\ ncalls = 0
    /\ panicked = FALSE

\* no framing run and no export in progress
NoOpts == [IncludeTimestamps |-> FALSE, FilterByTime |-> FALSE, StartTime |-> 0,
           EndTime |-> 0, CustomHeader |-> <<>>]
FramerIdle == fedData = <<>> /\ cuts = <<>> /\ acc = <<>> /\ emitted = <<>>
ExportIdle == lines = <<>> /\ opts = NoOpts /\ written = <<>> /\ exported = FALSE

Init == ManagerInit /\ FramerIdle /\ ExportIdle


\* ------------------------------------------------------- SerialManager
\* sm.mu: every region of code that runs with the lock held contains no
\* blocking operation, so a locked region is one step.  The only place where
\* a method gives the lock up and takes it again is stopReader's wait, and
\* that is where Connect and Disconnect are split in two steps.

\* a goroutine may enter a manager method; any number of goroutines may call
\* the manager, every call may come from a goroutine of its own
CanCall == ~panicked /\ ncalls < MaxCalls

\* a faulty variant of the test: the guard is missing
NeverRunning == FALSE

\* StartReading's test of sm.running under the lock
AlreadyRunning == running

\* the generation a StartReading call that launches a reader allocates
NextGen == Cardinality({g \in Gens : readers[g].pc # "none"}) + 1

\* StartReading: with a reader running it returns a closed pair of fresh
\* channels; otherwise it allocates the signals, sets running, copies sm.port
\* and launches the goroutine.
StartReading ==
    /\ CanCall
    /\ ncalls' = ncalls + 1
    /\ IF AlreadyRunning
       THEN /\ ret' = [op |-> "StartReading", val |-> "closedpair", ch |-> 0]
            /\ UNCHANGED <<mgr, readers, consumers>>
       ELSE /\ NextGen \in Gens
            /\ stopCh' = NextGen
            /\ doneCh' = NextGen
            /\ running' = TRUE
            /\ readers' = [readers EXCEPT ![NextGen] =
                              [NoReader EXCEPT !.pc = "spawned", !.port = port]]
            /\ consumers' = [consumers EXCEPT ![NextGen] = "drain"]
            /\ ret' = [op |-> "StartReading", val |-> "chans", ch |-> NextGen]
            /\ UNCHANGED <<port, portName, baudRate>>
    /\ UNCHANGED <<calls, env, chans, hist, panicked>>
    /\ UNCHANGED pure

\* stopReader's local doneCh: the channel it waits on after unlocking
WaitTarget == doneCh

\* a call that waits in stopReader, with its arguments and its local doneCh
Call(id, op, name, baud, done) ==
    [id |-> id, op |-> op, name |-> name, baud |-> baud, done |-> done]

\* stopReader with a reader running, up to sm.mu.Unlock(): close the stop
\* channel, clear sm.running, and wait with the lock released
stopReader(op, name, baud) ==
    /\ running
    /\ stopClosed' = stopClosed \cup {stopCh}
    /\ running' = FALSE
    /\ calls' = calls \cup {Call(ncalls + 1, op, name, baud, WaitTarget)}
    /\ UNCHANGED <<port, portName, baudRate, stopCh, doneCh, env, doneCloses,
                   lineCh, lineClosed, errCh, ret>>

\* a faulty variant of the close: the field is cleared, the handle stays open
KeepPortOpen == closedH

\* "if sm.port != nil { sm.port.Close(); sm.port = nil }"
ClosePort == IF port # 0 THEN closedH \cup {port} ELSE closedH

\* Disconnect after stopReader: close and clear the port, return
DisconnectTail ==
    /\ closedH' = ClosePort
    /\ port' = 0
    /\ ret' = [op |-> "Disconnect", val |-> "ok", ch |-> 0]
    /\ UNCHANGED <<portName, baudRate, running, stopCh, doneCh, opened, device,
                   chans>>

\* Connect after stopReader: close the port, then serial.Open succeeds or fails
ConnectTail(name, baud) ==
    /\ closedH' = ClosePort
    /\ \/ /\ opened' = opened + 1
          /\ port' = opened + 1
          /\ portName' = name
          /\ baudRate' = baud
          /\ ret' = [op |-> "Connect", val |-> "ok", ch |-> 0]
       \/ /\ port' = 0
          /\ ret' = [op |-> "Connect", val |-> "err", ch |-> 0]
          /\ UNCHANGED <<opened, portName, baudRate>>
    /\ UNCHANGED <<running, stopCh, doneCh, device, chans>>

\* Connect, as far as it gets without blocking
Connect ==
    /\ CanCall
    /\ ncalls' = ncalls + 1
    /\ \E c \in Configs :
          \/ stopReader("Connect", c[1], c[2])
          \/ ~running /\ ConnectTail(c[1], c[2]) /\ UNCHANGED calls
    /\ UNCHANGED <<readers, consumers, hist, panicked>>
    /\ UNCHANGED pure

\* Disconnect, as far as it gets without blocking
Disconnect ==
    /\ CanCall
    /\ ncalls' = ncalls + 1
    /\ \/ stopReader("Disconnect", "", 0)
       \/ ~running /\ DisconnectTail /\ UNCHANGED calls
    /\ UNCHANGED <<readers, consumers, hist, panicked>>
    /\ UNCHANGED pure

\* stopReader: "<-doneCh" can proceed
DoneFired(d) == d = 0 \/ doneCloses[d] > 0

\* a call waiting in stopReader receives from its done channel, takes the
\* lock again and runs to its end
Resume(c) ==
    /\ ~panicked
    /\ DoneFired(c.done)
    /\ calls' = calls \ {c}
    /\ IF c.op = "Connect" THEN ConnectTail(c.name, c.baud) ELSE DisconnectTail
    /\ UNCHANGED <<readers, consumers, hist, ncalls, panicked>>
    /\ UNCHANGED pure

\* --------------------------------------------------- the reader goroutine
\* The goroutine reads the fields sm.stopCh and sm.doneCh without the lock
\* while StartReading writes them under it.  Such a read returns the value
\* written before the goroutine was launched (its own generation g) or the
\* field's current value.
StopViews(g) == {g, stopCh}
DoneViews(g) == {g, doneCh}

\* "case <-sm.stopCh" is ready for the channel value v the read returned
StopSeen(v) == v \in stopClosed

\* after a return statement: the deferred calls run, close(done) first
Return(g) == [readers EXCEPT ![g].pc = "closeDone"]

\* the goroutine's first statements: "defer close(sm.doneCh)" evaluates its
\* argument now
ReaderStart(g) ==
    /\ ~panicked
    /\ readers[g].pc = "spawned"
    /\ \E d \in DoneViews(g) :
          readers' = [readers EXCEPT ![g].pc = "poll", ![g].done = d]
    /\ UNCHANGED <<mgr, env, chans, callv, consumers, hist,
                   ncalls, panicked>>
    /\ UNCHANGED pure

\* the select at the top of the loop
ReaderPoll(g) ==
    /\ ~panicked
    /\ readers[g].pc = "poll"
    /\ \E v \in StopViews(g) :
          readers' = IF StopSeen(v) THEN Return(g)
                     ELSE [readers EXCEPT ![g].pc = "read"]
    /\ UNCHANGED <<mgr, env, chans, callv, consumers, hist,
                   ncalls, panicked>>
    /\ UNCHANGED pure

\* a faulty variant of the extraction: it cuts at the last line feed of the
\* accumulator (bytes.LastIndexByte) instead of the first
LastLF(s) == CHOOSE i \in 1..Len(s) : s[i] = LF /\ \A j \in (i + 1)..Len(s) : s[j] # LF

AfterExtractLast(g, p) ==
    IF IndexLF(p) # 0
    THEN [readers EXCEPT ![g].pc = "send",
                         ![g].cur = StripCR(SubSeq(p, 1, LastLF(p) - 1)),
                         ![g].partial = SubSeq(p, LastLF(p) + 1, Len(p))]
    ELSE [readers EXCEPT ![g].pc = "poll", ![g].cur = <<>>, ![g].partial = p]

\* the reader's position after the extraction loop met the accumulator p:
\* a complete line is taken out and is to be sent, or the loop is left
AfterExtract(g, p) ==
    IF IndexLF(p) # 0
    THEN [readers EXCEPT ![g].pc = "send", ![g].cur = FirstLine(p),
                         ![g].partial = Rest(p)]
    ELSE [readers EXCEPT ![g].pc = "poll", ![g].cur = <<>>, ![g].partial = p]

\* a faulty variant of the append: the accumulator is dropped
AccumulateReset(p, c) == c

\* "partial = append(partial, buf[:n]...)"
Accumulate(p, c) == p \o c

\* port.Read returns n > 0 bytes: append them and extract
ReaderReadData(g) ==
    /\ ~panicked
    /\ readers[g].pc = "read"
    /\ readers[g].port # 0
    /\ readers[g].port \notin closedH
    /\ \E n \in 1..Len(device) :
          /\ device' = SubSeq(device, n + 1, Len(device))
          /\ stream' = [stream EXCEPT ![g] = @ \o SubSeq(device, 1, n)]
          /\ readers' = AfterExtract(g, Accumulate(readers[g].partial,
                                                    SubSeq(device, 1, n)))
    /\ UNCHANGED <<mgr, opened, closedH, chans, callv, consumers, sent,
                   ncalls, panicked>>
    /\ UNCHANGED pure

\* port.Read times out: n = 0 and no error
ReaderReadTimeout(g) ==
    /\ ~panicked
    /\ readers[g].pc = "read"
    /\ readers[g].port # 0
    /\ readers[g].port \notin closedH
    /\ readers' = [readers EXCEPT ![g].pc = "poll"]
    /\ UNCHANGED <<mgr, env, chans, callv, consumers, hist,
                   ncalls, panicked>>
    /\ UNCHANGED pure

\* port.Read returns an error: the device failed, or the port was closed
ReaderReadError(g) ==
    /\ ~panicked
    /\ readers[g].pc = "read"
    /\ readers[g].port # 0
    /\ readers' = [readers EXCEPT ![g].pc = "errcheck"]
    /\ UNCHANGED <<mgr, env, chans, callv, consumers, hist,
                   ncalls, panicked>>
    /\ UNCHANGED pure

\* port.Read on a nil serial.Port: nil dereference, the process panics
ReaderReadNil(g) ==
    /\ ~panicked
    /\ readers[g].pc = "read"
    /\ readers[g].port = 0
    /\ panicked' = TRUE
    /\ UNCHANGED <<mgr, env, chans, callv, readers, consumers,
                   hist, ncalls>>
    /\ UNCHANGED pure

\* "case ch <- line" is ready
SendReady(g) == Len(lineCh[g]) < ChanCap

\* the select that sends a line: the send
ReaderSend(g) ==
    /\ ~panicked
    /\ readers[g].pc = "send"
    /\ SendReady(g)
    /\ lineCh' = [lineCh EXCEPT ![g] = Append(@, readers[g].cur)]
    /\ sent' = [sent EXCEPT ![g] = Append(@, readers[g].cur)]
    /\ readers' = AfterExtract(g, readers[g].partial)
    /\ UNCHANGED <<mgr, env, stopClosed, doneCloses, lineClosed,
                   errCh, callv, consumers, stream, ncalls, panicked>>
    /\ UNCHANGED pure

\* the select that sends a line: the stop case
ReaderSendStopped(g) ==
    /\ ~panicked
    /\ readers[g].pc = "send"
    /\ \E v \in StopViews(g) : StopSeen(v)
    /\ readers' = Return(g)
    /\ UNCHANGED <<mgr, env, chans, callv, consumers, hist,
                   ncalls, panicked>>
    /\ UNCHANGED pure

\* a faulty variant of the error branch: it returns without publishing
ErrSwallowedAlways(v) == TRUE

\* the select in the error branch finds the stop channel v closed
ErrSwallowed(v) == v \in stopClosed

\* "if err != nil": return silently when the stop channel is closed, else
\* publish the error and return
ReaderErrCheck(g) ==
    /\ ~panicked
    /\ readers[g].pc = "errcheck"
    /\ \E v \in StopViews(g) :
          errCh' = IF ErrSwallowed(v) THEN errCh ELSE [errCh EXCEPT ![g] = @ + 1]
    /\ readers' = Return(g)
    /\ UNCHANGED <<mgr, env, stopClosed, doneCloses, lineCh,
                   lineClosed, callv, consumers, hist, ncalls, panicked>>
    /\ UNCHANGED pure

\* deferred close(done): closing a closed channel panics
ReaderCloseDone(g) ==
    /\ ~panicked
    /\ readers[g].pc = "closeDone"
    /\ IF doneCloses[readers[g].done] > 0
       THEN /\ panicked' = TRUE
            /\ UNCHANGED <<doneCloses, readers>>
       ELSE /\ doneCloses' = [doneCloses EXCEPT ![readers[g].done] = 1]
            /\ readers' = [readers EXCEPT ![g].pc = "closeCh"]
            /\ UNCHANGED panicked
    /\ UNCHANGED <<mgr, env, stopClosed, lineCh, lineClosed,
                   errCh, callv, consumers, hist, ncalls>>
    /\ UNCHANGED pure

\* deferred close(ch): the goroutine is over
ReaderCloseCh(g) ==
    /\ ~panicked
    /\ readers[g].pc = "closeCh"
    /\ lineClosed' = lineClosed \cup {g}
    /\ readers' = [readers EXCEPT ![g].pc = "dead"]
    /\ UNCHANGED <<mgr, env, stopClosed, doneCloses, lineCh,
                   errCh, callv, consumers, hist, ncalls, panicked>>
    /\ UNCHANGED pure

\* ------------------------------------------------- AppUI.consumeSerial
\* "for line := range ch": one line received
ConsumerRecv(g) ==
    /\ ~panicked
    /\ consumers[g] = "drain"
    /\ lineCh[g] # <<>>
    /\ lineCh' = [lineCh EXCEPT ![g] = Tail(@)]
    /\ UNCHANGED <<mgr, env, stopClosed, doneCloses, lineClosed,
                   errCh, callv, readers, consumers, hist, ncalls, panicked>>
    /\ UNCHANGED pure

\* the range loop ends: the channel is closed and drained
ConsumerClosed(g) ==
    /\ ~panicked
    /\ consumers[g] = "drain"
    /\ lineCh[g] = <<>>
    /\ g \in lineClosed
    /\ consumers' = [consumers EXCEPT ![g] = "select"]
    /\ UNCHANGED <<mgr, env, chans, callv, readers, hist,
                   ncalls, panicked>>
    /\ UNCHANGED pure

\* the non-blocking receive on errCh after the loop
ConsumerSelect(g) ==
    /\ ~panicked
    /\ consumers[g] = "select"
    /\ IF errCh[g] > 0
       THEN /\ errCh' = [errCh EXCEPT ![g] = @ - 1]
            /\ consumers' = [consumers EXCEPT ![g] = "fault"]
       ELSE /\ consumers' = [consumers EXCEPT ![g] = "clean"]
            /\ UNCHANGED errCh
    /\ UNCHANGED <<mgr, env, stopClosed, doneCloses, lineCh,
                   lineClosed, callv, readers, hist, ncalls, panicked>>
    /\ UNCHANGED pure

\* ------------------------------------------------------ specification
Next ==
    \/ StartReading
    \/ Connect
    \/ Disconnect
    \/ \E c \in calls : Resume(c)
    \/ \E g \in Gens : ReaderStart(g)
    \/ \E g \in Gens : ReaderPoll(g)
    \/ \E g \in Gens : ReaderReadData(g)
    \/ \E g \in Gens : ReaderReadTimeout(g)
    \/ \E g \in Gens : ReaderReadError(g)
    \/ \E g \in Gens : ReaderReadNil(g)
    \/ \E g \in Gens : ReaderSend(g)
    \/ \E g \in Gens : ReaderSendStopped(g)
    \/ \E g \in Gens : ReaderErrCheck(g)
    \/ \E g \in Gens : ReaderCloseDone(g)
    \/ \E g \in Gens : ReaderCloseCh(g)
    \/ \E g \in Gens : ConsumerRecv(g)
    \/ \E g \in Gens : ConsumerClosed(g)
    \/ \E g \in Gens : ConsumerSelect(g)

Spec == Init /\ [][Next]_vars

\* the scheduler runs every goroutine that can take a step, and every device
\* read returns; nobody is obliged to call the manager or to drain a channel
ReaderStep(g) ==
    \/ ReaderStart(g)
    \/ ReaderPoll(g)
    \/ ReaderReadData(g)
    \/ ReaderReadTimeout(g)
    \/ ReaderReadError(g)
    \/ ReaderReadNil(g)
    \/ ReaderSend(g)
    \/ ReaderSendStopped(g)
    \/ ReaderErrCheck(g)
    \/ ReaderCloseDone(g)
    \/ ReaderCloseCh(g)

FairSpec ==
    /\ Spec
    /\ \A g \in Gens : WF_vars(ReaderStep(g))
    /\ WF_vars(\E c \in calls : Resume(c))

\* ------------------------------------------------------- the line framing
\* The framing of the reader's loop on its own: the bytes of fedData arrive
\* in chunks of any length, each read appends its chunk to the accumulator
\* and the extraction loop runs to its end (every send goes through).
Bytes == {97, CR, LF}
SeqsUpTo(S, n) == UNION {[1..k -> S] : k \in 0..n}

\* the accumulator when the extraction loop is left
RECURSIVE Remainder(_)
Remainder(s) == IF IndexLF(s) = 0 THEN s ELSE Remainder(Rest(s))

RECURSIVE Sum(_)
Sum(q) == IF q = <<>> THEN 0 ELSE Head(q) + Sum(Tail(q))

\* the number of bytes the reads have returned so far
Consumed == Sum(cuts)

FramerInit ==
    /\ ManagerInit
    /\ ExportIdle
    /\ fedData \in SeqsUpTo(Bytes, MaxData)
    /\ cuts = <<>>
    /\ acc = <<>>
    /\ emitted = <<>>

\* one pass of the loop in which port.Read returns n > 0 bytes
FramerRead ==
    \E n \in 1..(Len(fedData) - Consumed) :
        LET chunk == SubSeq(fedData, Consumed + 1, Consumed + n)
            p == Accumulate(acc, chunk)
        IN  /\ cuts' = Append(cuts, n)
            /\ emitted' = emitted \o Lines(p)
            /\ acc' = Remainder(p)
            /\ UNCHANGED <<fedData, export, serial>>

FramerNext == FramerRead

FramerSpec == FramerInit /\ [][FramerNext]_vars

\* ---------------------------------------------------------------- ExportCSV
\* A field is a sequence of symbols, a record a sequence of fields.  A line
\* is a SerialLine: a time stamp in ticks and its data.  The file can be
\* created and written: os.Create and the csv writer return no error.
Datas == {<<>>, <<"x">>, <<"x", ",", "y">>}
SerialLines == [Timestamp : 0..MaxTime, Data : Datas]
CustomHeaders == {<<>>, << <<"h">>, <<"k">> >>}
Options == [IncludeTimestamps : BOOLEAN, FilterByTime : BOOLEAN,
            StartTime : 0..MaxTime, EndTime : 0..MaxTime,
            CustomHeader : CustomHeaders]

\* strings.Split(d, ",")
RECURSIVE Split(_)
Split(d) ==
    IF \A i \in 1..Len(d) : d[i] # ","
    THEN <<d>>
    ELSE LET i == CHOOSE i \in 1..Len(d) :
                      d[i] = "," /\ \A j \in 1..(i - 1) : d[j] # ","
         IN  <<SubSeq(d, 1, i - 1)>> \o Split(SubSeq(d, i + 1, Len(d)))

\* Timestamp.Format("2006-01-02 15:04:05.000"): the time to the millisecond
Format(t) == <<ToString(t \div TicksPerMs)>>

\* a faulty variant of the header: the flag decides before the custom header
HeaderByFlag(o) ==
    IF o.IncludeTimestamps THEN << <<"Timestamp">>, <<"Data">> >>
    ELSE IF Len(o.CustomHeader) > 0 THEN o.CustomHeader
    ELSE << <<"Data">> >>

\* the header row ExportCSV writes
Header(o) ==
    IF Len(o.CustomHeader) > 0 THEN o.CustomHeader
    ELSE IF o.IncludeTimestamps THEN << <<"Timestamp">>, <<"Data">> >>
    ELSE << <<"Data">> >>

\* a faulty variant of the filter: both ends are exclusive
SkippedExclusive(l, o) ==
    o.FilterByTime /\ (l.Timestamp <= o.StartTime \/ l.Timestamp >= o.EndTime)

\* the loop's "continue": Before(StartTime) || After(EndTime)
Skipped(l, o) ==
    o.FilterByTime /\ (l.Timestamp < o.StartTime \/ l.Timestamp > o.EndTime)

\* the record written for a line
Record(l, o) ==
    IF o.IncludeTimestamps
    THEN <<Format(l.Timestamp)>> \o Split(l.Data)
    ELSE Split(l.Data)

\* the records the loop over the lines writes
RECURSIVE Records(_, _)
Records(ls, o) ==
    IF ls = <<>> THEN <<>>
    ELSE (IF Skipped(Head(ls), o) THEN <<>> ELSE <<Record(Head(ls), o)>>)
             \o Records(Tail(ls), o)

ExportInit ==
    /\ ManagerInit
    /\ FramerIdle
    /\ lines \in SeqsUpTo(SerialLines, MaxLines)
    /\ opts \in Options
    /\ written = <<>>
    /\ exported = FALSE

ExportCSV ==
    /\ ~exported
    /\ written' = <<Header(opts)>> \o Records(lines, opts)
    /\ exported' = TRUE
    /\ UNCHANGED <<lines, opts, framer, serial>>

ExportNext == ExportCSV

ExportSpec == ExportInit /\ [][ExportNext]_vars

\* ------------------------------------------------------------ vocabulary
\* reader g has been launched and has not yet raised its completion signal
Active(g) ==
    readers[g].pc \in {"spawned", "poll", "read", "send", "errcheck", "closeDone"}

\* reader g is over: both deferred closes have run (or the process died)
Gone(g) == readers[g].pc = "dead" \/ panicked

\* the stop signal allocated for reader g has been raised
StopRaised(g) == g \in stopClosed

\* sm.IsConnected()
IsConnected == port # 0

\* the number of calls that have returned
Returned == ncalls - Cardinality(calls)

IsPrefix(a, b) == Len(a) <= Len(b) /\ SubSeq(b, 1, Len(a)) = a

\* steps of the callers, as seen in the variables
CallBegins == ncalls' = ncalls + 1
CallReturns(op) == Returned' = Returned + 1 /\ ret'.op = op
DisconnectBegins ==
    /\ CallBegins
    /\ \/ calls' = calls /\ ret'.op = "Disconnect"
       \/ \E c \in calls' \ calls : c.op = "Disconnect"

\* reader g inspects a read error in this step
Inspects(g) == readers[g].pc = "errcheck" /\ readers'[g].pc # "errcheck"

\* ---------------------------------------------------------------- claims
\* C1: at most one reader is active on a device handle: two readers that
\* have been launched and have not yet raised their completion signals never
\* read from the same handle.
C1_OneReaderPerHandle ==
    \A g, h \in Gens :
        (g # h /\ Active(g) /\ Active(h) /\ readers[g].port # 0)
            => readers[g].port # readers[h].port

\* C2: once the stop signal of an active reader is raised, the reader ends:
\* its completion signal fires and its line channel is closed; and after the
\* completion signal it sends no line.
C2_StopTerminates ==
    /\ \A g \in Gens : (Active(g) /\ StopRaised(g)) ~> Gone(g)
    /\ [][\A g \in Gens :
            readers[g].pc \in {"closeCh", "dead"} => sent'[g] = sent[g]]_vars

\* C3: the lines a reader has sent on its line channel are, in order, the
\* first lines of the byte stream its reads have returned.
C3_SentIsPrefix == \A g \in Gens : IsPrefix(sent[g], Lines(stream[g]))

\* C3 witness: a reader has sent two different lines and its line channel is
\* full
C3_Witness ==
    \E g \in Gens :
        /\ Len(sent[g]) >= 2
        /\ sent[g][1] # sent[g][2]
        /\ Len(lineCh[g]) = ChanCap

\* C4: a reader that inspects a read error while its stop signal is not
\* raised publishes one error, before its line channel is closed, and returns;
\* an error channel never receives a second error; and a consumer that found
\* the line channel closed and then found no error has left no error behind.
C4_FaultPublished ==
    [][\A g \in Gens :
        /\ (Inspects(g) /\ ~StopRaised(g)) =>
              /\ errCh[g] = 0
              /\ errCh'[g] = 1
              /\ readers'[g].pc = "closeDone"
        /\ errCh'[g] > errCh[g] =>
              /\ Inspects(g)
              /\ errCh[g] = 0
              /\ g \notin lineClosed'
              /\ consumers'[g] = "drain"
        /\ consumers'[g] = "clean" => errCh'[g] = 0]_vars

\* C4 witness: a consumer drained a line channel to its close and then
\* received the error of a reader that nobody had stopped
C4_Witness == \E g \in Gens : consumers[g] = "fault" /\ ~StopRaised(g)

\* C5: a reader that inspects a read error after its stop signal was raised
\* publishes nothing.
C5_StopSuppressesError ==
    [][\A g \in Gens :
        (Inspects(g) /\ StopRaised(g)) => errCh'[g] = errCh[g]]_vars

\* C6: a handle is closed only when no active reader reads from it, and when
\* Disconnect returns no reader is active, sm.running is false and no handle
\* is held.
C6_CloseAfterReaderExit ==
    [][/\ \A h \in closedH' \ closedH :
              \A g \in Gens : readers[g].port = h => ~Active(g)
       /\ CallReturns("Disconnect") =>
              /\ ~running'
              /\ port' = 0
              /\ \A g \in Gens : ~Active(g)']_vars

\* C7: Disconnect called while IsConnected is false changes no field, raises
\* no signal, closes nothing and returns without waiting.
C7_DisconnectIdempotent ==
    [][(DisconnectBegins /\ ~IsConnected) =>
          /\ mgr' = mgr
          /\ chans' = chans
          /\ env' = env
          /\ CallReturns("Disconnect")]_vars

\* C8: when Connect returns an error, no handle is held, no reader is
\* running, and the recorded port name and baud rate are those from before.
C8_FailedConnect ==
    [][(CallReturns("Connect") /\ ret'.val = "err") =>
          /\ port' = 0
          /\ ~running'
          /\ \A g \in Gens : ~Active(g)'
          /\ portName' = portName
          /\ baudRate' = baudRate]_vars

\* C9: StartReading called with sm.running true returns the closed pair,
\* launches no goroutine and leaves the manager, the readers and all the
\* channels as they were.
C9_StartReadingWhileRunning ==
    [][(CallReturns("StartReading") /\ running) =>
          /\ ret'.val = "closedpair"
          /\ mgr' = mgr
          /\ chans' = chans
          /\ readers' = readers
          /\ consumers' = consumers]_vars

\* C9 witness: StartReading returned the closed pair while a reader reads
C9_Witness ==
    /\ ret.val = "closedpair"
    /\ running
    /\ \E g \in Gens : readers[g].pc = "read"

\* C10: whenever sm.running is true, exactly one reader is active and it
\* reads from the manager's current handle.
C10_RunningMeansOneReader ==
    running =>
        /\ Cardinality({g \in Gens : Active(g)}) = 1
        /\ \A g \in Gens : Active(g) => readers[g].port = port

\* C11: whenever sm.running is false no reader is active (none has been
\* launched and not yet raised its completion signal), so no read is in
\* flight; also while a call waits in stopReader.
C11_NotRunningMeansNoReader ==
    ~running => \A g \in Gens : ~Active(g)

\* reader g is over and left an error for its consumer while nobody had
\* raised its stop signal
Faulted(g) ==
    /\ readers[g].pc = "dead"
    /\ ~StopRaised(g)
    /\ errCh[g] > 0 \/ consumers[g] = "fault"

\* C12: once a reader has terminated on a device fault, the handle it read
\* from has been closed and the manager does not hold it: IsConnected is
\* false unless a later Connect opened another handle.
C12_FaultClosesConnection ==
    \A g \in Gens :
        Faulted(g) => /\ readers[g].port \in closedH
                      /\ port # readers[g].port

\* C13: a reader raises its own completion signal and no other, exactly
\* once: the signal it has deferred is its own, no close of a completion
\* signal meets one already closed, and a reader that is over has raised its
\* own completion signal and closed its line channel.
C13_CompletionExactlyOnce ==
    \A g \in Gens :
        /\ readers[g].pc \notin {"none", "spawned"} => readers[g].done = g
        /\ readers[g].pc = "closeDone" => doneCloses[readers[g].done] = 0
        /\ readers[g].pc \in {"closeCh", "dead"} => doneCloses[g] = 1
        /\ readers[g].pc = "dead" => g \in lineClosed

\* the positions of the line feeds of s, and the k-th of them
LFs(s) == {i \in 1..Len(s) : s[i] = LF}
KthLF(s, k) ==
    IF k = 0 THEN 0
    ELSE CHOOSE i \in LFs(s) : Cardinality({j \in LFs(s) : j <= i}) = k

\* the k-th segment of s that ends at a line feed, without the line feed and
\* without one trailing carriage return
Segment(s, k) ==
    LET raw == SubSeq(s, KthLF(s, k - 1) + 1, KthLF(s, k) - 1)
    IN  IF raw # <<>> /\ raw[Len(raw)] = CR
        THEN SubSeq(raw, 1, Len(raw) - 1)
        ELSE raw
Segments(s) == [k \in 1..Cardinality(LFs(s)) |-> Segment(s, k)]
AfterLastLF(s) == SubSeq(s, KthLF(s, Cardinality(LFs(s))) + 1, Len(s))

\* C14: a read that appends a chunk to the accumulator emits, in order,
\* exactly the segments of accumulator-and-chunk that end at a line feed,
\* each without its line feed and without at most one trailing carriage
\* return, and leaves as accumulator the bytes after the last line feed, with
\* no line feed among them; so data CR LF gives the one line data and an
\* empty accumulator, and bytes without a line feed give no line and are all
\* kept.
C14_FramerSegments ==
    [][cuts' # cuts =>
          LET chunk == SubSeq(fedData, Sum(cuts) + 1, Sum(cuts'))
              s == acc \o chunk
          IN  /\ emitted' = emitted \o Segments(s)
              /\ acc' = AfterLastLF(s)
              /\ LFs(acc') = {}
              /\ LFs(chunk) = {} => (emitted' = emitted /\ acc' = s)]_vars

\* C14 witness: a chunk was appended to a non-empty accumulator and
\* a CR LF gave the line a and an empty accumulator
C14_Witness ==
    /\ fedData = <<97, CR, LF>>
    /\ cuts = <<1, 2>>
    /\ emitted = << <<97>> >>
    /\ acc = <<>>

\* the input lines whose time stamp lies in [StartTime, EndTime], or all of
\* them without the filter, by position; the k-th of them
InRange == {i \in 1..Len(lines) :
               opts.FilterByTime =>
                   (opts.StartTime <= lines[i].Timestamp
                        /\ lines[i].Timestamp <= opts.EndTime)}
KthInRange(k) == CHOOSE i \in InRange : Cardinality({j \in InRange : j <= i}) = k

\* the data rows: what follows the header
DataRows == Tail(written)

\* C15: ExportCSV writes one data row for each input line whose time stamp t
\* satisfies StartTime <= t <= EndTime, in input order, and with the filter
\* off one row per line; StartTime = EndTime = T keeps the lines stamped T
\* only, and EndTime < StartTime gives no data row.
C15_ExportFilter ==
    exported =>
        /\ Len(DataRows) = Cardinality(InRange)
        /\ \A k \in 1..Len(DataRows) : DataRows[k] = Record(lines[KthInRange(k)], opts)
        /\ ~opts.FilterByTime => Len(DataRows) = Len(lines)
        /\ (opts.FilterByTime /\ opts.StartTime = opts.EndTime) =>
              Len(DataRows) =
                  Cardinality({i \in 1..Len(lines) : lines[i].Timestamp = opts.StartTime})
        /\ (opts.FilterByTime /\ opts.EndTime < opts.StartTime) => DataRows = <<>>

\* C15 witness: of two lines, StartTime = EndTime kept the second only
C15_Witness ==
    /\ exported
    /\ opts.FilterByTime
    /\ opts.StartTime = opts.EndTime
    /\ Len(lines) = 2
    /\ lines[1].Timestamp # opts.StartTime
    /\ lines[2].Timestamp = opts.StartTime
    /\ Len(DataRows) = 1

\* fields joined by commas
RECURSIVE Join(_)
Join(fs) ==
    IF Len(fs) = 1 THEN fs[1] ELSE fs[1] \o <<",">> \o Join(Tail(fs))

\* the fields fs are the data d split on its commas
IsSplitOf(fs, d) ==
    /\ Len(fs) >= 1
    /\ Join(fs) = d
    /\ \A k \in 1..Len(fs) : \A i \in 1..Len(fs[k]) : fs[k][i] # ","

\* C16: the first record written is the header and the only one: the custom
\* header as given when there is one, whatever IncludeTimestamps is, else
\* Timestamp,Data with IncludeTimestamps and Data without; and every data row
\* is the line's data split on commas, preceded by the formatted time stamp
\* exactly when IncludeTimestamps is true.
C16_ExportHeaderAndRows ==
    exported =>
        /\ Len(written) = 1 + Cardinality(InRange)
        /\ opts.CustomHeader # <<>> => written[1] = opts.CustomHeader
        /\ (opts.CustomHeader = <<>> /\ opts.IncludeTimestamps) =>
              written[1] = << <<"Timestamp">>, <<"Data">> >>
        /\ (opts.CustomHeader = <<>> /\ ~opts.IncludeTimestamps) =>
              written[1] = << <<"Data">> >>
        /\ \A k \in 1..Len(DataRows) :
              LET l == lines[KthInRange(k)]
              IN  IF opts.IncludeTimestamps
                  THEN /\ Head(DataRows[k]) = Format(l.Timestamp)
                       /\ IsSplitOf(Tail(DataRows[k]), l.Data)
                  ELSE IsSplitOf(DataRows[k], l.Data)

\* C16 witness: a custom header with IncludeTimestamps, and a row of a time
\* stamp and two fields below it
C16_Witness ==
    /\ exported
    /\ opts.CustomHeader # <<>>
    /\ opts.IncludeTimestamps
    /\ Len(written) >= 2
    /\ Len(written[2]) = 3

\* the call that was begun as the id-th waits in stopReader
Waiting(id) == \E c \in calls : c.id = id

\* C17: every Connect and every Disconnect that waits in stopReader for the
\* reader's completion signal gets it and returns (unless the process dies
\* of a panic first).
C17_CallsReturn ==
    \A id \in 1..MaxCalls : Waiting(id) ~> (~Waiting(id) \/ panicked)

\* C18: a reader defers the completion signal of its own launch and no
\* other, and a reader that polls for a stop while its own stop signal is
\* raised sees it and returns.
C18_OwnSignalsOnly ==
    [][\A g \in Gens :
        /\ readers'[g].pc \notin {"none", "spawned"} => readers'[g].done = g
        /\ (readers[g].pc = "poll" /\ readers'[g].pc # "poll" /\ StopRaised(g))
              => readers'[g].pc = "closeDone"]_vars

\* C19: every reader that has been launched reads from a handle: the port
\* it copied from the manager at its launch is not nil.
C19_ReaderHasHandle ==
    \A g \in Gens : readers[g].pc # "none" => readers[g].port # 0

\* C20: however the reads cut the bytes into chunks, the lines emitted and
\* the accumulator left are those of the same bytes read as one chunk.
C20_ChunkingIndependent ==
    LET s == SubSeq(fedData, 1, Consumed)
    IN  /\ emitted = Lines(s)
        /\ acc = Remainder(s)

\* C20 witness: a CR LF that came in two chunks, the CR ending the first
C20_Witness ==
    /\ fedData = <<97, CR, LF>>
    /\ cuts = <<2, 1>>
    /\ emitted = << <<97>> >>
    /\ acc = <<>>

\* the handles serial.Open has returned on which Close was never called
OpenHandles == {h \in 1..opened : h \notin closedH}

\* C21: every handle Connect has opened is the one the manager holds or has
\* been closed, so at most one is open, and the one held is open; and when
\* the call that returned last is a Disconnect and no call waits, none is
\* open and none is held.
C21_NoHandleLeak ==
    /\ \A h \in 1..opened : h = port \/ h \in closedH
    /\ Cardinality(OpenHandles) <= 1
    /\ port # 0 => port \in OpenHandles
    /\ (ret.op = "Disconnect" /\ calls = {}) => (OpenHandles = {} /\ port = 0)

\* C21 witness: a Connect opened a second handle and returned while
\* another call waits in stopReader, and the first handle is closed
C21_Witness ==
    /\ calls # {}
    /\ ret.op = "Connect"
    /\ ret.val = "ok"
    /\ opened >= 2
    /\ port = opened
    /\ closedH = 1..(opened - 1)
====
